---- MODULE Spec2Model ----
(***************************************************************************)
(* A model of matlab_proxy/util/troubleshooter.py: the probes              *)
(* (find_executable, exec_command), the classifier (process_output), the   *)
(* renderer (prettify) and the driver (print_environment_info).            *)
(*                                                                         *)
(* Python str values are TLA+ strings; + is \o and len is Len.  Captured   *)
(* stdout/stderr streams are sequences of one-character strings so that    *)
(* str.strip() can be computed; StrOf turns them into a string.            *)
(***************************************************************************)
EXTENDS Naturals, Sequences, FiniteSets, TLC

VARIABLES
    pc,               \* position of the running call
    fn,               \* the function under call in the probe specification
    func,             \* process_output's func argument
    suppress,         \* the suppress_suggestions argument
    args,             \* *args: names or command strings
    world,            \* what the host answers for args[i]: which() and subprocess.run()
                      \* (in a run of print_environment_info: for the i-th probe group)
    results,          \* process_output: the list returned by func(*args)
    idx,              \* process_output: index of the next cmd_pair of the for loop
    loopst,           \* process_output: the locals body, error, err_recommendation
    ret,              \* the value returned, or the exception raised
    executed,         \* the lookups and shell commands performed so far, in order
    isatty,           \* sys.stdout.isatty()
    cols,             \* os.get_terminal_size().columns
    boundary_filler,  \* prettify's boundary_filler argument
    text_arr,         \* prettify's text_arr argument
    geometry_queries, \* number of os.get_terminal_size() calls made
    groups_done,      \* print_environment_info: the probe groups that returned, in order
    output,           \* print_environment_info: the local output, kept as the sequence
                      \* of the strings appended to it (the str is their concatenation)
    stdout,           \* what has been written to sys.stdout, one element per write
    faults            \* print_environment_info: the host's answers so far that were not
                      \* the usual one (found, prints to stdout only, no log file set)

vars == <<pc, fn, func, suppress, args, world, results, idx, loopst, ret, executed,
          isatty, cols, boundary_filler, text_arr, geometry_queries,
          groups_done, output, stdout, faults>>

probe_vars == <<fn, func, suppress, args, world, results, idx, loopst, ret>>
render_vars == <<isatty, cols, boundary_filler, text_arr, geometry_queries>>
driver_vars == <<groups_done, output, stdout, faults>>

---------------------------------------------------------------------------
(* Bounds *)

\* longest *args sequence handed to a probe function
MaxArgs == 2
\* longest text_arr handed to prettify
MaxBlocks == 2
\* longest text block handed to prettify
MaxTextLen == 2
\* widest terminal
MaxCols == 3
\* most unusual answers the host gives during one run of print_environment_info
MaxFaults == 2

---------------------------------------------------------------------------
(* Python values *)

\* None: a value that no path and no captured output equals
None == "<None object>"

\* str(v), as an f-string formats v
PyStr(v) == IF v = None THEN "None" ELSE v

Whitespace == {" ", "\n", "\t"}

RECURSIVE LStrip(_)
LStrip(s) == IF s = <<>> THEN s
             ELSE IF Head(s) \in Whitespace THEN LStrip(Tail(s)) ELSE s

RECURSIVE RStrip(_)
RStrip(s) == IF s = <<>> THEN s
             ELSE IF s[Len(s)] \in Whitespace THEN RStrip(SubSeq(s, 1, Len(s) - 1)) ELSE s

\* str.strip() on a captured stream
Strip(s) == RStrip(LStrip(s))

\* the str made of the characters of s
RECURSIVE StrOf(_)
StrOf(s) == IF s = <<>> THEN "" ELSE Head(s) \o StrOf(Tail(s))

\* a call's outcome: a returned value or a raised exception, with the probes it performed
Ok(v, tr) == [raised |-> FALSE, value |-> v, exc |-> "", trace |-> tr]
Raise(e, tr) == [raised |-> TRUE, value |-> <<>>, exc |-> e, trace |-> tr]

\* the classes an exception is an instance of (Python's class hierarchy)
Mro(e) == CASE e = "TimeoutExpired" -> {"TimeoutExpired", "SubprocessError", "Exception"}
            [] e = "TimeoutError" -> {"TimeoutError", "OSError", "Exception"}
            [] OTHER -> {e, "Exception"}

\* whether "except cls:" handles exception e
Catches(cls, e) == cls \in Mro(e)

GREEN_OK == "\\033[32mOK\\033[0m"
RED_X == "\\033[31m X\\033[0m"

---------------------------------------------------------------------------
(* The host: what which() and subprocess.run() can answer *)

\* the names looked up and, for exec_command, the command strings run
Names == {"python", "pip"}

StdoutSamples == {<<>>, <<"o">>, <<" ", "o", "\n">>}
StderrSamples == {<<>>, <<" ">>, <<"e", "\n">>}
ExitCodes == {0, 1}

PathOf(name) == "/usr/bin/" \o name

\* the timeout handed to subprocess.run
Timeout == 10

\* how long a command runs: within the timeout, or beyond it
Durations == {1, Timeout + 1}

NoRun == [duration |-> 1, stdout |-> <<>>, stderr |-> <<>>, returncode |-> 0]

\* outcomes of running one shell command: a run beyond the timeout is killed and
\* hands back no streams
Runs == [duration : {d \in Durations : d > Timeout}, stdout : {<<>>}, stderr : {<<>>},
         returncode : {0}]
        \cup [duration : {d \in Durations : d <= Timeout}, stdout : StdoutSamples, stderr : StderrSamples,
              returncode : ExitCodes]

\* outcomes of looking one name up
Lookups == {TRUE, FALSE}

\* the host's answers for one argument
Host(found, run) == [found |-> found, run |-> run]

\* shutil.which(name)
Which(name, w) == IF w.found THEN PathOf(name) ELSE None

\* subprocess.run(cmd, shell=True, capture_output=True, timeout=10, text=True)
SubprocessRun(cmd, w) ==
    IF w.run.duration > Timeout
        THEN Raise("TimeoutExpired", <<>>)
        ELSE Ok([stdout |-> w.run.stdout, stderr |-> w.run.stderr,
                 returncode |-> w.run.returncode], <<>>)

---------------------------------------------------------------------------
(* cmd_output, cmd_only_output, Report *)

cmd_output(command, out, isError) ==
    [cls |-> "cmd_output", command |-> command, output |-> out, isError |-> isError]

cmd_only_output(command, out, isError) ==
    [cls |-> "cmd_only_output", command |-> command, output |-> out, isError |-> isError]

\* cmd_pair.__str__()
CmdStr(c) ==
    IF c.cls = "cmd_only_output"
        THEN PyStr(c.output) \o "\n"
        ELSE c.command \o " - " \o PyStr(c.output) \o " - "
             \o (IF c.isError THEN RED_X ELSE GREEN_OK) \o "\n"

Report(body, recommendations, has_error) ==
    [body |-> body, recommendations |-> recommendations, has_error |-> has_error]

\* Report.__str__()
ReportStr(r) == r.body \o r.recommendations

---------------------------------------------------------------------------
(* find_executable *)

RECURSIVE FindLoop(_, _, _, _)
FindLoop(a, w, i, out) ==
    IF i > Len(a) THEN out
    ELSE LET path == Which(a[i], w[i])
         IN  FindLoop(a, w, i + 1,
                      Append(out, cmd_output(a[i], path, IF path = None THEN TRUE ELSE FALSE)))

find_executable(a, w) ==
    Ok(FindLoop(a, w, 1, <<>>), [i \in 1..Len(a) |-> <<"which", a[i]>>])

---------------------------------------------------------------------------
(* exec_command *)

\* the error flag of a completed process
ExecIsErrorMutExit(completed) == IF completed.returncode # 0 THEN TRUE ELSE FALSE
ExecIsError(completed) == IF completed.stderr # <<>> THEN TRUE ELSE FALSE

\* the result appended for a completed process
Completed(cmd, completed) ==
    cmd_only_output(cmd,
                    StrOf(Strip(completed.stdout)) \o StrOf(Strip(completed.stderr)),
                    ExecIsError(completed))

\* the result appended by the except clause
TimedOut(cmd) == cmd_only_output(cmd, cmd \o " command timed out!", TRUE)

\* the exception class named by the except clause
ExceptClass == "TimeoutError"

RECURSIVE ExecLoop(_, _, _, _, _)
ExecLoop(a, w, i, out, tr) ==
    IF i > Len(a) THEN Ok(out, tr)
    ELSE LET r == SubprocessRun(a[i], w[i])
             tr2 == Append(tr, <<"run", a[i]>>)
         IN  IF r.raised
                 THEN IF Catches(ExceptClass, r.exc)
                          THEN ExecLoop(a, w, i + 1, Append(out, TimedOut(a[i])), tr2)
                          ELSE Raise(r.exc, tr2)
                 ELSE ExecLoop(a, w, i + 1, Append(out, Completed(a[i], r.value)), tr2)

exec_command(a, w) == ExecLoop(a, w, 1, <<>>, <<>>)

\* func(*args) for the two probe functions
CallFunc(f, a, w) == IF f = "find_executable" THEN find_executable(a, w)
                     ELSE exec_command(a, w)

---------------------------------------------------------------------------
(* process_output *)

Recommendation(command) ==
    "Recommendation: " \o command \o " is not installed. Please install "
    \o command \o ".\n"

\* the locals before the for loop
LoopInit == [body |-> "", error |-> FALSE, err_recommendation |-> ""]

\* a loop body that ignores suppress_suggestions
ProcessIterMutNoSuppress(st, c, sup) ==
    LET error == IF c.output = None THEN TRUE ELSE st.error
    IN  [body |-> CmdStr(c), error |-> error,
         err_recommendation |-> IF error THEN Recommendation(c.command)
                                ELSE st.err_recommendation]

\* a loop body that recommends only for the result that failed
ProcessIterMutOwn(st, c, sup) ==
    LET error == IF c.output = None THEN TRUE ELSE st.error
    IN  [body |-> CmdStr(c), error |-> error,
         err_recommendation |-> IF c.output = None /\ sup # TRUE
                                    THEN Recommendation(c.command)
                                    ELSE st.err_recommendation]

\* one iteration of the for loop over cmd_pair c
ProcessIter(st, c, sup) ==
    LET error == IF c.output = None THEN TRUE ELSE st.error
    IN  [body |-> CmdStr(c), error |-> error,
         err_recommendation |-> IF error /\ sup # TRUE
                                    THEN Recommendation(c.command)
                                    ELSE st.err_recommendation]

RECURSIVE ProcessLoop(_, _, _, _)
ProcessLoop(res, i, st, sup) ==
    IF i > Len(res) THEN st
    ELSE ProcessLoop(res, i + 1, ProcessIter(st, res[i], sup), sup)

\* the Report built after the loop
ReportOf(st) == Report(st.body, st.err_recommendation, st.error)

\* process_output, given what func(*args) returned or raised
ProcessResult(r, sup) ==
    IF r.raised THEN r
    ELSE Ok(ReportOf(ProcessLoop(r.value, 1, LoopInit, sup)), r.trace)

process_output(f, sup, a, w) == ProcessResult(CallFunc(f, a, w), sup)

---------------------------------------------------------------------------
(* find_executable_and_version *)

VersionCmd(cmd) == cmd \o " --version"

\* output.append(version), given what the version command's process_output did
WithVersion(rep, version) ==
    IF version.raised THEN Raise(version.exc, rep.trace \o version.trace)
    ELSE Ok(<<rep.value, version.value>>, rep.trace \o version.trace)

\* a helper that runs the version command whatever the lookup found
FeavBodyMutAlways(rep, version) == WithVersion(rep, version)

\* the body of find_executable_and_version: rep is the lookup's process_output,
\* version that of the version command (evaluated only where the body uses it)
FeavBody(rep, version) ==
    IF ~rep.value.has_error THEN WithVersion(rep, version)
    ELSE Ok(<<rep.value>>, rep.trace)

find_executable_and_version(cmd, sup, w) ==
    FeavBody(process_output("find_executable", sup, <<cmd>>, <<w>>),
             process_output("exec_command", sup, <<VersionCmd(cmd)>>, <<w>>))

---------------------------------------------------------------------------
(* The probe specification: one call of a probe function, of process_output *)
(* or of find_executable_and_version, on inputs drawn by Init               *)

ArgSeqs == UNION {[1..n -> Names] : n \in 0..MaxArgs}

LookupWorlds(n) == [1..n -> {Host(found, NoRun) : found \in Lookups}]
RunWorlds(n) == [1..n -> {Host(FALSE, run) : run \in Runs}]
Worlds(f, n) == IF f = "find_executable" THEN LookupWorlds(n) ELSE RunWorlds(n)

NoReturn == [raised |-> FALSE, value |-> <<>>, exc |-> "", trace |-> <<>>]

RenderIdle ==
    /\ isatty = FALSE
    /\ cols = 0
    /\ boundary_filler = " "
    /\ text_arr = <<>>
    /\ geometry_queries = 0

DriverIdle ==
    /\ groups_done = <<>>
    /\ output = <<>>
    /\ stdout = <<>>
    /\ faults = 0

ProbeIdle ==
    /\ fn = ""
    /\ func = ""
    /\ suppress = FALSE
    /\ args = <<>>
    /\ world = <<>>
    /\ results = <<>>
    /\ idx = 0
    /\ loopst = LoopInit
    /\ ret = NoReturn

InitProbe ==
    /\ pc = "call"
    /\ fn \in {"find_executable", "exec_command", "process_output",
               "find_executable_and_version"}
    /\ \/ /\ fn \in {"find_executable", "exec_command"}
          /\ func = fn
          /\ suppress = FALSE
          /\ args \in ArgSeqs
          /\ world \in Worlds(fn, Len(args))
       \/ /\ fn = "process_output"
          /\ func \in {"find_executable", "exec_command"}
          /\ suppress \in BOOLEAN
          /\ args \in ArgSeqs
          /\ world \in Worlds(func, Len(args))
       \/ /\ fn = "find_executable_and_version"
          /\ func = fn
          /\ suppress \in BOOLEAN
          /\ args \in [1..1 -> Names]
          /\ world \in [1..1 -> {Host(found, run) : found \in Lookups, run \in Runs}]
    /\ results = <<>>
    /\ idx = 0
    /\ loopst = LoopInit
    /\ ret = NoReturn
    /\ executed = <<>>
    /\ RenderIdle
    /\ DriverIdle

\* the call returns or raises
Finish(r) ==
    /\ ret' = r
    /\ executed' = executed \o r.trace
    /\ pc' = IF r.raised THEN "raised" ELSE "done"

FindExecutable ==
    /\ pc = "call"
    /\ fn = "find_executable"
    /\ Finish(find_executable(args, world))
    /\ UNCHANGED <<fn, func, suppress, args, world, results, idx, loopst>>
    /\ UNCHANGED <<render_vars, driver_vars>>

ExecCommand ==
    /\ pc = "call"
    /\ fn = "exec_command"
    /\ Finish(exec_command(args, world))
    /\ UNCHANGED <<fn, func, suppress, args, world, results, idx, loopst>>
    /\ UNCHANGED <<render_vars, driver_vars>>

FindExecutableAndVersion ==
    /\ pc = "call"
    /\ fn = "find_executable_and_version"
    /\ Finish(find_executable_and_version(args[1], suppress, world[1]))
    /\ UNCHANGED <<fn, func, suppress, args, world, results, idx, loopst>>
    /\ UNCHANGED <<render_vars, driver_vars>>

\* process_output evaluates func(*args)
ProcessOutputCall ==
    /\ pc = "call"
    /\ fn = "process_output"
    /\ \E r \in {CallFunc(func, args, world)} :
           /\ executed' = executed \o r.trace
           /\ IF r.raised
                  THEN /\ ret' = r
                       /\ pc' = "raised"
                       /\ UNCHANGED <<results, idx>>
                  ELSE /\ results' = r.value
                       /\ idx' = 1
                       /\ pc' = "loop"
                       /\ UNCHANGED ret
    /\ UNCHANGED <<fn, func, suppress, args, world, loopst>>
    /\ UNCHANGED <<render_vars, driver_vars>>

\* process_output runs one iteration of its for loop
ProcessOutputIter ==
    /\ pc = "loop"
    /\ idx <= Len(results)
    /\ loopst' = ProcessIter(loopst, results[idx], suppress)
    /\ idx' = idx + 1
    /\ UNCHANGED <<pc, fn, func, suppress, args, world, results, ret, executed>>
    /\ UNCHANGED <<render_vars, driver_vars>>

\* process_output builds and returns the Report
ProcessOutputReturn ==
    /\ pc = "loop"
    /\ idx > Len(results)
    /\ ret' = Ok(ReportOf(loopst), <<>>)
    /\ pc' = "done"
    /\ UNCHANGED <<fn, func, suppress, args, world, results, idx, loopst, executed>>
    /\ UNCHANGED <<render_vars, driver_vars>>

NextProbe ==
    \/ FindExecutable
    \/ ExecCommand
    \/ FindExecutableAndVersion
    \/ ProcessOutputCall
    \/ ProcessOutputIter
    \/ ProcessOutputReturn

SpecProbe == InitProbe /\ [][NextProbe]_vars

---------------------------------------------------------------------------
(* prettify *)

\* "".ljust(n, ch)
RECURSIVE Fill(_, _)
Fill(n, ch) == IF n = 0 THEN "" ELSE ch \o Fill(n - 1, ch)

\* sep.join(arr)
RECURSIVE Join(_, _)
Join(sep, arr) ==
    IF arr = <<>> THEN ""
    ELSE IF Len(arr) = 1 THEN arr[1]
    ELSE arr[1] \o sep \o Join(sep, Tail(arr))

\* text.center(width): CPython pads marg/2 + (marg & width & 1) on the left
Center(text, width) ==
    IF Len(text) >= width THEN text
    ELSE LET marg == width - Len(text)
             left == (marg \div 2) + ((marg % 2) * (width % 2))
         IN  Fill(left, " ") \o text \o Fill(marg - left, " ")

\* the loop "result += text + \n" (and "content += text.center(cols) + \n")
RECURSIVE Lines(_, _)
Lines(arr, width) ==
    IF arr = <<>> THEN ""
    ELSE Center(arr[1], width) \o "\n" \o Lines(Tail(arr), width)

\* the delimiter line of the branch taken when stdout is no terminal
PlainDelimiter == "\n============================\n"

\* what prettify returns, and how many times it asked for the terminal size
Rendered(v, q) == [value |-> v, queries |-> q]

\* a prettify that asks for the terminal size before looking at isatty()
PrettifyMutQuery(filler, arr, tty, c) ==
    IF ~tty THEN Rendered(PlainDelimiter \o Join("\n", arr) \o PlainDelimiter, 1)
    ELSE Rendered("", 1)

\* a prettify that frames an empty text_arr on a terminal
PrettifyMutFrame(filler, arr, tty, c) ==
    IF ~tty THEN Rendered(PlainDelimiter \o Join("\n", arr) \o PlainDelimiter, 0)
    ELSE Rendered("\n" \o Fill(c, filler) \o "\n" \o Lines(arr, c) \o Fill(c, filler), 1)

prettify(filler, arr, tty, c) ==
    IF ~tty
        THEN Rendered(PlainDelimiter \o Join("\n", arr) \o PlainDelimiter, 0)
    ELSE IF \E i \in 1..Len(arr) : Len(arr[i]) > c
        THEN Rendered(Lines(arr, 0), 1)
    ELSE Rendered((IF Len(arr) > 0 THEN "\n" \o Fill(c, filler) \o "\n" ELSE "")
                  \o Lines(arr, c)
                  \o (IF Len(arr) > 0 THEN Fill(c, filler) ELSE ""), 1)

---------------------------------------------------------------------------
(* The render specification: one call of prettify on inputs drawn by Init *)

TextChars == {"a", "b"}
Texts == {StrOf(s) : s \in UNION {[1..n -> TextChars] : n \in 0..MaxTextLen}}
TextArrs == UNION {[1..n -> Texts] : n \in 0..MaxBlocks}
Fillers == {" ", "-"}

InitRender ==
    /\ pc = "call"
    /\ isatty \in BOOLEAN
    /\ cols \in 0..MaxCols
    /\ boundary_filler \in Fillers
    /\ text_arr \in TextArrs
    /\ geometry_queries = 0
    /\ executed = <<>>
    /\ ProbeIdle
    /\ DriverIdle

Prettify ==
    /\ pc = "call"
    /\ \E r \in {prettify(boundary_filler, text_arr, isatty, cols)} :
           /\ ret' = Ok(r.value, <<>>)
           /\ geometry_queries' = geometry_queries + r.queries
    /\ pc' = "done"
    /\ UNCHANGED <<fn, func, suppress, args, world, results, idx, loopst, executed>>
    /\ UNCHANGED <<isatty, cols, boundary_filler, text_arr>>
    /\ UNCHANGED driver_vars

NextRender == Prettify

SpecRender == InitRender /\ [][NextRender]_vars

---------------------------------------------------------------------------
(* The probe groups of print_environment_info *)

\* generate_header(title), on the terminal the run writes to
generate_header(title) == prettify("-", <<title>>, isatty, cols).value \o "\n"

\* "".join(op.__str__() for op in reports)
RECURSIVE JoinReports(_)
JoinReports(reps) ==
    IF reps = <<>> THEN "" ELSE ReportStr(Head(reps)) \o JoinReports(Tail(reps))

\* header + what a list of Reports renders to, given the call that built them
Section(title, r) ==
    IF r.raised THEN r ELSE Ok(generate_header(title) \o JoinReports(r.value), r.trace)

\* a one-element list of the Report of a process_output call
ListOf(r) == IF r.raised THEN r ELSE Ok(<<r.value>>, r.trace)

list_matlab(w) ==
    Section("matlab executable",
            ListOf(process_output("find_executable", FALSE, <<"matlab">>, <<w[1]>>)))

list_matlab_proxy_on_path(w) ==
    Section("matlab-proxy-app executable",
            ListOf(process_output("find_executable", FALSE, <<"matlab-proxy-app">>, <<w[1]>>)))

list_jupyter_executable(w) ==
    Section("jupyter executable",
            ListOf(process_output("find_executable", FALSE, <<"jupyter">>, <<w[1]>>)))

\* the list built so far, extended by what the next call returned
Extend(acc, r) ==
    IF acc.raised THEN acc
    ELSE IF r.raised THEN Raise(r.exc, acc.trace \o r.trace)
    ELSE Ok(acc.value \o r.value, acc.trace \o r.trace)

\* [find_executable_and_version(cmd, False) for cmd in commands_to_execute], flattened
RECURSIVE FeavAll(_, _, _)
FeavAll(cmds, w, n) ==
    IF n = 0 THEN Ok(<<>>, <<>>)
    ELSE Extend(FeavAll(cmds, w, n - 1), find_executable_and_version(cmds[n], FALSE, w[n]))

check_python_and_pip_installed(w) ==
    Section("Python and pip executables", FeavAll(<<"python", "pip", "python3">>, w, 3))

\* platform.system(), platform.release(), platform.platform()
PlatformData == <<"Linux", "6.1.0", "Linux-6.1.0-x86_64">>

\* header + status + "\n" + uname_op.__str__()
OsSection(uname_op) ==
    IF uname_op.raised THEN uname_op
    ELSE Ok(generate_header("OS information") \o Join("\n", PlatformData) \o "\n"
            \o ReportStr(uname_op.value), uname_op.trace)

os_info(w) == OsSection(process_output("exec_command", FALSE, <<"uname -v">>, <<w[1]>>))

list_conda_related_information(w) ==
    Section("Conda information",
            Extend(find_executable_and_version("conda", TRUE, w[1]),
                   ListOf(process_output("exec_command", TRUE, <<"conda env list">>,
                                         <<w[2]>>))))

PipListCmd ==
    "python -m pip list | grep -E \"jupyter|matlab-proxy|jupyter-matlab-proxy|notebook\""

list_installed_packages(w) ==
    Section("Installed packages",
            ListOf(process_output("exec_command", TRUE, <<PipListCmd>>, <<w[1]>>)))

\* [process_output(exec_command, False, cmd) for cmd in commands_to_execute]
RECURSIVE ExtAll(_, _, _)
ExtAll(cmds, w, n) ==
    IF n = 0 THEN Ok(<<>>, <<>>)
    ELSE Extend(ExtAll(cmds, w, n - 1),
                ListOf(process_output("exec_command", FALSE, <<cmds[n]>>, <<w[n]>>)))

list_server_extensions(w) ==
    Section("Server extensions",
            ExtAll(<<"jupyter serverextension list", "jupyter nbextension list",
                     "jupyter labextension list">>, w, 3))

EnvCmd == "env | grep -iE \"matlab|mw|mwi\""

list_env_vars(w) ==
    Section("Environment variables",
            ListOf(process_output("exec_command", TRUE, <<EnvCmd>>, <<w[1]>>)))

\* w[1].set: MWI_LOG_FILE is in os.environ; w[1].exists: os.path.exists(log_file);
\* w[1].lines: lf.read().splitlines()
collect_logs_from_logfile(w) ==
    Ok(generate_header("matlab proxy logs")
       \o Join("\n", IF w[1].set /\ w[1].exists THEN w[1].lines ELSE <<>>), <<>>)

\* the probe group of the given name, run against the host's answers w
Group(g, w) ==
    CASE g = "list_matlab" -> list_matlab(w)
      [] g = "list_matlab_proxy_on_path" -> list_matlab_proxy_on_path(w)
      [] g = "list_jupyter_executable" -> list_jupyter_executable(w)
      [] g = "check_python_and_pip_installed" -> check_python_and_pip_installed(w)
      [] g = "os_info" -> os_info(w)
      [] g = "list_conda_related_information" -> list_conda_related_information(w)
      [] g = "list_installed_packages" -> list_installed_packages(w)
      [] g = "list_server_extensions" -> list_server_extensions(w)
      [] g = "list_env_vars" -> list_env_vars(w)
      [] g = "collect_logs_from_logfile" -> collect_logs_from_logfile(w)

---------------------------------------------------------------------------
(* The host's answers to a run of print_environment_info *)

\* a command that prints to stdout, one that prints to stderr, one beyond the timeout
OkRun == [duration |-> 1, stdout |-> <<"o">>, stderr |-> <<>>, returncode |-> 0]

DriverRuns ==
    {OkRun,
     [duration |-> 1, stdout |-> <<>>, stderr |-> <<"e", "\n">>, returncode |-> 1],
     [duration |-> Timeout + 1, stdout |-> <<>>, stderr |-> <<>>, returncode |-> 0]}

LookupHosts == {Host(found, OkRun) : found \in Lookups}
RunHosts == {Host(TRUE, run) : run \in DriverRuns}
FeavHosts == {Host(FALSE, OkRun)} \cup {Host(TRUE, run) : run \in DriverRuns}

LogHosts ==
    {[set |-> FALSE, exists |-> FALSE, lines |-> <<>>],
     [set |-> TRUE, exists |-> FALSE, lines |-> <<>>],
     [set |-> TRUE, exists |-> TRUE, lines |-> <<"INFO started", "ERROR stopped">>]}

GroupWorlds(g) ==
    CASE g \in {"list_matlab", "list_matlab_proxy_on_path", "list_jupyter_executable"}
           -> [1..1 -> LookupHosts]
      [] g = "check_python_and_pip_installed" -> [1..3 -> FeavHosts]
      [] g = "list_conda_related_information"
           -> {<<c, e>> : c \in FeavHosts, e \in RunHosts}
      [] g = "list_server_extensions" -> [1..3 -> RunHosts]
      [] g = "collect_logs_from_logfile" -> [1..1 -> LogHosts]
      [] OTHER -> [1..1 -> RunHosts]

\* the answers of w that are not the usual one
Unusual(g, w) ==
    IF g = "collect_logs_from_logfile"
        THEN IF w[1].set THEN 1 ELSE 0
        ELSE Cardinality({i \in DOMAIN w : w[i] # Host(TRUE, OkRun)})

---------------------------------------------------------------------------
(* print_environment_info *)

\* an order that starts with the OS information
GroupOrderMutOsFirst ==
    <<"os_info",
      "check_python_and_pip_installed",
      "list_conda_related_information",
      "list_installed_packages",
      "list_matlab",
      "list_matlab_proxy_on_path",
      "list_jupyter_executable",
      "list_server_extensions",
      "list_env_vars",
      "collect_logs_from_logfile">>

\* the order of the "output +=" statements
GroupOrder ==
    <<"list_matlab",
      "list_matlab_proxy_on_path",
      "list_jupyter_executable",
      "check_python_and_pip_installed",
      "os_info",
      "list_conda_related_information",
      "list_installed_packages",
      "list_server_extensions",
      "list_env_vars",
      "collect_logs_from_logfile">>

\* the widest terminal of a run of print_environment_info
WideCols == 40

Init ==
    /\ pc = "run"
    /\ isatty \in BOOLEAN
    /\ cols = IF isatty THEN WideCols ELSE 0
    /\ boundary_filler = " "
    /\ text_arr = <<>>
    /\ geometry_queries = 0
    /\ executed = <<>>
    /\ ProbeIdle
    /\ DriverIdle

\* the statement "output += g()": g returns its section, or raises
RunGroup(g) ==
    /\ Len(groups_done) < Len(GroupOrder)
    /\ GroupOrder[Len(groups_done) + 1] = g
    /\ \E w \in GroupWorlds(g) :
         /\ faults + Unusual(g, w) <= MaxFaults
         /\ faults' = faults + Unusual(g, w)
         /\ world' = Append(world, w)
         /\ \E r \in {Group(g, w)} :
              /\ executed' = executed \o r.trace
              /\ IF r.raised
                     THEN /\ pc' = "raised"
                          /\ ret' = Raise(r.exc, <<>>)
                          /\ UNCHANGED <<groups_done, output>>
                     ELSE /\ output' = Append(output, r.value)
                          /\ groups_done' = Append(groups_done, g)
                          /\ UNCHANGED <<pc, ret>>
    \* generate_header's prettify call asks for the terminal size once on a terminal
    /\ geometry_queries' = geometry_queries + prettify("-", <<g>>, isatty, cols).queries
    /\ UNCHANGED <<fn, func, suppress, args, results, idx, loopst>>
    /\ UNCHANGED <<isatty, cols, boundary_filler, text_arr, stdout>>

ListMatlab ==
    /\ pc = "run"
    /\ RunGroup("list_matlab")
ListMatlabProxyOnPath ==
    /\ pc = "run"
    /\ RunGroup("list_matlab_proxy_on_path")
ListJupyterExecutable ==
    /\ pc = "run"
    /\ RunGroup("list_jupyter_executable")
CheckPythonAndPipInstalled ==
    /\ pc = "run"
    /\ RunGroup("check_python_and_pip_installed")
OsInfo ==
    /\ pc = "run"
    /\ RunGroup("os_info")
ListCondaRelatedInformation ==
    /\ pc = "run"
    /\ RunGroup("list_conda_related_information")
ListInstalledPackages ==
    /\ pc = "run"
    /\ RunGroup("list_installed_packages")
ListServerExtensions ==
    /\ pc = "run"
    /\ RunGroup("list_server_extensions")
ListEnvVars ==
    /\ pc = "run"
    /\ RunGroup("list_env_vars")
CollectLogsFromLogfile ==
    /\ pc = "run"
    /\ RunGroup("collect_logs_from_logfile")

\* print(output)
PrintOutput ==
    /\ pc = "run"
    /\ Len(groups_done) = Len(GroupOrder)
    /\ stdout' = Append(stdout, Append(output, "\n"))
    /\ pc' = "done"
    /\ UNCHANGED <<probe_vars, render_vars, executed, groups_done, output, faults>>

Next ==
    \/ ListMatlab
    \/ ListMatlabProxyOnPath
    \/ ListJupyterExecutable
    \/ CheckPythonAndPipInstalled
    \/ OsInfo
    \/ ListCondaRelatedInformation
    \/ ListInstalledPackages
    \/ ListServerExtensions
    \/ ListEnvVars
    \/ CollectLogsFromLogfile
    \/ PrintOutput

Spec == Init /\ [][Next]_vars

---------------------------------------------------------------------------
(* Claims *)

\* the length of the delimiter line prettify writes when stdout is no terminal
DelimLen == 28

\* C1: every command whose execution exceeds the timeout makes exec_command append a
\* result with error flag true and output "<command> command timed out!", and
\* exec_command goes on with the remaining commands: it does not raise.
C1_TimeoutIsCaptured ==
    (fn = "exec_command" /\ pc # "call") =>
        /\ pc = "done"
        /\ Len(ret.value) = Len(args)
        /\ \A i \in 1..Len(args) :
             world[i].run.duration > Timeout =>
                 /\ ret.value[i].isError = TRUE
                 /\ ret.value[i].output = args[i] \o " command timed out!"

\* C2: a run of print_environment_info executes all ten probe groups and then writes
\* the document exactly once: no probe failure aborts the run, and nothing is written
\* before the last group has finished.
C2_RunNeverAborts ==
    /\ pc # "raised"
    /\ Len(stdout) <= 1
    /\ stdout # <<>> => Len(groups_done) = Len(GroupOrder)
    /\ pc = "done" => Len(stdout) = 1 /\ Len(groups_done) = Len(GroupOrder)

\* C3: the Report of process_output has has_error = TRUE exactly when some result in
\* the sequence returned by the probe function has isError = TRUE.
C3_HasErrorIffAnyIsError ==
    (fn = "process_output" /\ pc = "done") =>
        (ret.value.has_error <=> \E i \in 1..Len(results) : results[i].isError)

\* C4: every Report of process_output has an empty recommendations string whenever
\* has_error is false or suppress_suggestions is true.
C4_RecommendationEmpty ==
    /\ (fn = "process_output" /\ pc = "done") =>
           ((~ret.value.has_error \/ suppress) => ret.value.recommendations = "")
    /\ (fn = "find_executable_and_version" /\ pc = "done") =>
           \A i \in 1..Len(ret.value) :
               (~ret.value[i].has_error \/ suppress) => ret.value[i].recommendations = ""

\* C4 witness: a failing probe group whose suggestions are suppressed
C4_Witness ==
    /\ fn = "process_output"
    /\ pc = "done"
    /\ suppress
    /\ ret.value.has_error
    /\ ret.value.recommendations = ""

\* position of group g in groups_done, 0 when it has not returned
Pos(g) == IF \E i \in 1..Len(groups_done) : groups_done[i] = g
              THEN CHOOSE i \in 1..Len(groups_done) : groups_done[i] = g
              ELSE 0

\* position of the shell command cmd in executed, 0 when it has not been run
RunPos(cmd) == IF \E i \in 1..Len(executed) : executed[i] = <<"run", cmd>>
                   THEN CHOOSE i \in 1..Len(executed) : executed[i] = <<"run", cmd>>
                   ELSE 0

\* the order of the groups as the claim states it
C5_Claimed ==
    <<"os_info",
      "check_python_and_pip_installed",
      "list_conda_related_information",
      "list_installed_packages",
      "list_matlab",
      "list_matlab_proxy_on_path",
      "list_server_extensions",
      "list_env_vars",
      "collect_logs_from_logfile">>

\* C5 as stated: the OS information section comes first, then Python/pip, then conda
\* presence, then the installed-packages filter, then the conda environment listing,
\* then the matlab and helper-application lookups, then server extensions, then
\* environment variables, and the log section last.
C5_ClaimedOrder ==
    /\ \A i, j \in 1..Len(C5_Claimed) :
         (i < j /\ Pos(C5_Claimed[j]) > 0) =>
             (Pos(C5_Claimed[i]) > 0 /\ Pos(C5_Claimed[i]) < Pos(C5_Claimed[j]))
    /\ RunPos("conda env list") > 0 =>
           (RunPos(PipListCmd) > 0 /\ RunPos(PipListCmd) < RunPos("conda env list"))

\* the order of the groups in the code
C5_Code ==
    <<"list_matlab",
      "list_matlab_proxy_on_path",
      "list_jupyter_executable",
      "check_python_and_pip_installed",
      "os_info",
      "list_conda_related_information",
      "list_installed_packages",
      "list_server_extensions",
      "list_env_vars",
      "collect_logs_from_logfile">>

\* C5 amended: the groups run, and their sections are concatenated, in the order matlab
\* executable, matlab-proxy-app executable, jupyter executable, Python and pip
\* executables with versions, OS information, Conda information (conda presence with
\* version, then the conda environment listing), installed packages, server
\* extensions, environment variables, and the log section last.
C5_CodeOrder ==
    /\ Len(groups_done) <= Len(C5_Code)
    /\ groups_done = SubSeq(C5_Code, 1, Len(groups_done))
    /\ Len(output) = Len(groups_done)
    /\ \A i \in 1..Len(output) : output[i] = Group(C5_Code[i], world[i]).value
    /\ RunPos("conda env list") > 0 =>
           /\ executed[RunPos("conda env list") - 1]
                  \in {<<"which", "conda">>, <<"run", "conda --version">>}
           /\ RunPos(PipListCmd) = 0 \/ RunPos(PipListCmd) > RunPos("conda env list")
    /\ pc = "done" => (groups_done = C5_Code /\ stdout = <<Append(output, "\n")>>)

\* C5 witness: a finished run, whose first section is the matlab lookup and whose fifth
\* is the OS information
C5_Witness ==
    /\ pc = "done"
    /\ groups_done[1] = "list_matlab"
    /\ groups_done[5] = "os_info"
    /\ groups_done[Len(GroupOrder)] = "collect_logs_from_logfile"
    /\ RunPos("conda env list") > 0

\* C6: for a command that completes within the timeout, the error flag of its result
\* is true exactly when stderr is non-empty, whatever the exit code: two executions
\* with the same command, stdout and stderr give the same result.
C6_StderrDecidesError ==
    (fn = "exec_command" /\ pc = "done") =>
        /\ Len(ret.value) = Len(args)
        /\ \A i \in 1..Len(args) :
             /\ ret.value[i].isError <=> (Len(world[i].run.stderr) > 0)
             /\ Len(world[i].run.stderr) = 0 => ret.value[i].isError = FALSE
        /\ \A i, j \in 1..Len(args) :
             (/\ args[i] = args[j]
              /\ world[i].run.stdout = world[j].run.stdout
              /\ world[i].run.stderr = world[j].run.stderr) => ret.value[i] = ret.value[j]

\* C6 witness: one command run twice with the same streams and different exit codes,
\* the nonzero one with empty stderr
C6_Witness ==
    /\ fn = "exec_command"
    /\ pc = "done"
    /\ Len(args) = 2
    /\ args[1] = args[2]
    /\ world[1].run.stdout = world[2].run.stdout
    /\ world[1].run.stderr = <<>>
    /\ world[2].run.stderr = <<>>
    /\ world[1].run.returncode = 0
    /\ world[2].run.returncode = 1
    /\ ret.value[2].isError = FALSE

\* the text blocks, one per line
RECURSIVE C7_OnePerLine(_, _)
C7_OnePerLine(arr, n) ==
    IF n = 0 THEN ""
    ELSE IF n = 1 THEN arr[1]
    ELSE C7_OnePerLine(arr, n - 1) \o "\n" \o arr[n]

\* C7: when stdout is no terminal, prettify returns without asking for the terminal
\* size, and its result is the text blocks, one per line, with the line of 28 "="
\* above and below, for every text_arr and every boundary_filler.
C7_PlainNoGeometry ==
    (pc = "done" /\ ~isatty) =>
        /\ geometry_queries = 0
        /\ ret.value = "\n" \o Fill(DelimLen, "=") \o "\n"
                       \o C7_OnePerLine(text_arr, Len(text_arr))
                       \o "\n" \o Fill(DelimLen, "=") \o "\n"

\* C7 witness: two blocks rendered for a destination that is no terminal
C7_Witness ==
    /\ pc = "done"
    /\ ~isatty
    /\ Len(text_arr) = 2
    /\ boundary_filler = "-"
    /\ geometry_queries = 0

\* C8 as stated: prettify with an empty text_arr returns a result without border or
\* delimiter lines, whether stdout is a terminal or not.
C8_EmptyNoFraming ==
    (pc = "done" /\ text_arr = <<>>) => ret.value = ""

\* C8 amended: prettify with an empty text_arr returns the empty string when stdout is
\* a terminal; when it is not, the result is the two delimiter lines of 28 "=" around
\* an empty line.
C8_EmptyFramingByDestination ==
    (pc = "done" /\ text_arr = <<>>) =>
        /\ isatty => (ret.value = "" /\ geometry_queries = 1)
        /\ ~isatty => ret.value = "\n" \o Fill(DelimLen, "=") \o "\n"
                                  \o "\n" \o Fill(DelimLen, "=") \o "\n"

\* C8 witness: an empty text_arr rendered for a terminal
C8_Witness ==
    /\ pc = "done"
    /\ text_arr = <<>>
    /\ isatty
    /\ cols > 0
    /\ ret.value = ""

\* the recommendation line naming a command
C9_Names(command) ==
    "Recommendation: " \o command \o " is not installed. Please install " \o command \o ".\n"

\* C9: with suggestions not suppressed, once a result of the sequence has failed (its
\* output is None) the error state stays true through the remaining iterations, and
\* the recommendation names the command of the last result iterated, in the final
\* Report too, even when that last result did not fail.
C9_StickyNamesLast ==
    (fn = "process_output" /\ ~suppress /\ pc \in {"loop", "done"}) =>
        /\ loopst.error <=> \E i \in 1..(idx - 1) : results[i].output = None
        /\ loopst.error => loopst.err_recommendation = C9_Names(results[idx - 1].command)
        /\ ~loopst.error => loopst.err_recommendation = ""
        /\ pc = "done" =>
               /\ idx - 1 = Len(results)
               /\ ret.value.has_error = loopst.error
               /\ ret.value.recommendations = loopst.err_recommendation

\* C9 witness: the first result failed, the last one did not, and the final Report
\* names the last one's command
C9_Witness ==
    /\ fn = "process_output"
    /\ pc = "done"
    /\ ~suppress
    /\ Len(results) = 2
    /\ results[1].output = None
    /\ results[2].output # None
    /\ results[1].command # results[2].command
    /\ ret.value.recommendations = C9_Names(results[2].command)

\* C10: find_executable_and_version runs "<cmd> --version" only after the lookup of
\* cmd returned without error: when the lookup finds nothing no version command is run
\* and the returned list holds exactly one Report, otherwise the returned list holds
\* exactly two Reports, the lookup's and then the version's.
C10_VersionAfterLookup ==
    (fn = "find_executable_and_version" /\ pc \in {"done", "raised"}) =>
        /\ Len(executed) >= 1
        /\ executed[1] = <<"which", args[1]>>
        /\ ~world[1].found =>
               /\ pc = "done"
               /\ executed = << <<"which", args[1]>> >>
               /\ Len(ret.value) = 1
               /\ ret.value[1].has_error
        /\ world[1].found =>
               /\ executed = << <<"which", args[1]>>, <<"run", args[1] \o " --version">> >>
               /\ pc = "done" =>
                      /\ Len(ret.value) = 2
                      /\ ~ret.value[1].has_error
                      /\ ret.value[1].body
                             = args[1] \o " - /usr/bin/" \o args[1] \o " - " \o GREEN_OK \o "\n"
                      /\ ret.value[2].body
                             = StrOf(Strip(world[1].run.stdout))
                               \o StrOf(Strip(world[1].run.stderr)) \o "\n"

\* C10 witness: a lookup that finds nothing, answered with one Report and no version
\* command
C10_Witness ==
    /\ fn = "find_executable_and_version"
    /\ pc = "done"
    /\ ~world[1].found
    /\ Len(ret.value) = 1
    /\ Len(executed) = 1

====
